---------------------------- MODULE Spec2Model ----------------------------
(***************************************************************************)
(* Short_Long: the indicator library (src/indicators) and the four         *)
(* rule-based strategies (src/strategies) as a state machine.              *)
(*                                                                         *)
(* Floating-point values are modelled as extended rationals <<n, d>> in    *)
(* lowest terms with d > 0, plus the three IEEE specials the pandas/numpy  *)
(* code produces: NaN = <<0,0>>, +inf = <<1,0>>, -inf = <<-1,0>>.  Every   *)
(* comparison with NaN is FALSE, x/0 is +-inf and 0/0 is NaN, as in numpy. *)
(* Series are 1-indexed sequences: iloc[-1] is s[Len(s)].                  *)
(***************************************************************************)
EXTENDS Integers, Sequences, FiniteSets, TLC

VARIABLES
    strategy,   \* the strategy object under evaluation, NoObj before construction
    df,         \* the OHLCV window handed to it
    fed,        \* candles appended to df after the loaded history
    result,     \* the last call on the strategy and what it returned
    prices,     \* indicator library: the price series passed in
    indicator,  \* indicator library: the indicator series passed in
    out,        \* indicator library: the last call and what it returned
    loader      \* DataLoader.get_ohlcv: its locals and its position in the loop

vars == <<strategy, df, fed, result, prices, indicator, out, loader>>

---------------------------------------------------------------------------
(* Extended rationals: the float model.                                    *)

NaN == <<0, 0>>
PosInf == <<1, 0>>
NegInf == <<-1, 0>>

IAbs(n) == IF n < 0 THEN -n ELSE n

RECURSIVE GCD(_, _)
GCD(a, b) == IF b = 0 THEN a ELSE GCD(b, a % b)

Sign(n) == IF n > 0 THEN 1 ELSE IF n < 0 THEN -1 ELSE 0

Rat(n, d) ==
    IF d = 0 THEN <<Sign(n), 0>>
    ELSE LET g == GCD(IAbs(n), IAbs(d))
             s == IF d < 0 THEN -1 ELSE 1
         IN  <<(s * n) \div g, (s * d) \div g>>

Num(n) == <<n, 1>>

IsNaN(x) == x = NaN
IsInf(x) == x[2] = 0 /\ x[1] # 0
IsFinite(x) == x[2] # 0
IsZero(x) == x[2] # 0 /\ x[1] = 0

Neg(x) == <<-x[1], x[2]>>

Add(x, y) ==
    IF IsNaN(x) \/ IsNaN(y) THEN NaN
    ELSE IF IsInf(x) THEN (IF IsInf(y) /\ y # x THEN NaN ELSE x)
    ELSE IF IsInf(y) THEN y
    ELSE LET g == GCD(x[2], y[2])
         IN  Rat(x[1] * (y[2] \div g) + y[1] * (x[2] \div g), (x[2] \div g) * y[2])

Sub(x, y) == Add(x, Neg(y))

Mul(x, y) ==
    IF IsNaN(x) \/ IsNaN(y) THEN NaN
    ELSE IF IsInf(x) \/ IsInf(y)
         THEN (IF IsZero(x) \/ IsZero(y) THEN NaN ELSE <<Sign(x[1]) * Sign(y[1]), 0>>)
    ELSE LET g1 == GCD(IAbs(x[1]), y[2])
             g2 == GCD(IAbs(y[1]), x[2])
         IN  Rat((x[1] \div g1) * (y[1] \div g2), (x[2] \div g2) * (y[2] \div g1))

Div(x, y) ==
    IF IsNaN(x) \/ IsNaN(y) THEN NaN
    ELSE IF IsInf(y) THEN (IF IsInf(x) THEN NaN ELSE Num(0))
    ELSE IF IsZero(y) THEN (IF IsZero(x) THEN NaN ELSE <<Sign(x[1]), 0>>)
    ELSE Mul(x, IF y[1] > 0 THEN <<y[2], y[1]>> ELSE <<-y[2], -y[1]>>)

Lt(x, y) ==
    IF IsNaN(x) \/ IsNaN(y) \/ x = y THEN FALSE
    ELSE IF x = PosInf \/ y = NegInf THEN FALSE
    ELSE IF x = NegInf \/ y = PosInf THEN TRUE
    ELSE LET g == GCD(x[2], y[2])
         IN  x[1] * (y[2] \div g) < y[1] * (x[2] \div g)

Gt(x, y) == Lt(y, x)
Eq(x, y) == ~IsNaN(x) /\ ~IsNaN(y) /\ x = y
Le(x, y) == Lt(x, y) \/ Eq(x, y)
Ge(x, y) == Le(y, x)

FAbs(x) == <<IAbs(x[1]), x[2]>>

(* Python's builtin min(a, b): b only when b < a, so min(a, NaN) is a. *)
PyMin(a, b) == IF Lt(b, a) THEN b ELSE a

(* 10^k *)
RECURSIVE Pow10(_)
Pow10(k) == IF k = 0 THEN 1 ELSE 10 * Pow10(k - 1)

(* The largest r with r * r <= m, for 0 <= m < 2^31, found one decimal     *)
(* digit at a time from the ten-thousands down (r has at most 5 digits).   *)
RECURSIVE RootDigits(_, _, _)
RootDigits(m, k, acc) ==
    LET unit == Pow10(k)
        fits(dg) == acc + dg * unit <= 46340 /\ (acc + dg * unit) * (acc + dg * unit) <= m
        dg == Cardinality({x \in 1..9 : fits(x)})
    IN  IF k = 0 THEN acc + dg ELSE RootDigits(m, k - 1, acc + dg * unit)

ISqrt(m) == RootDigits(m, 4, 0)

(* Square roots are irrational in general: the float sqrt is modelled as   *)
(* the root rounded down to two decimal places.                            *)
Sqrt(x) ==
    IF IsNaN(x) \/ x = NegInf \/ (IsFinite(x) /\ x[1] < 0) THEN NaN
    ELSE IF x = PosInf THEN PosInf
    ELSE Rat(ISqrt((x[1] * 10000) \div x[2]), 100)

---------------------------------------------------------------------------
(* pandas Series helpers.                                                  *)

(* The sum s[lo] + ... + s[hi], split in halves to keep the evaluation shallow. *)
RECURSIVE SumRange(_, _, _)
SumRange(s, lo, hi) ==
    IF lo > hi THEN Num(0)
    ELSE IF lo = hi THEN s[lo]
    ELSE LET mid == (lo + hi) \div 2
         IN  Add(SumRange(s, lo, mid), SumRange(s, mid + 1, hi))

(* s.rolling(window=w).<agg>() is unavailable before w samples exist. *)
RollingDefined(s, w, i) == w >= 1 /\ i >= w /\ i <= Len(s)

(* s.rolling(window=w).mean() at position i. *)
RollingMean(s, w, i) ==
    IF ~RollingDefined(s, w, i) THEN NaN
    ELSE Div(SumRange(s, i - w + 1, i), Num(w))

(* The largest (smallest) of s[lo..hi]; NaN when any of them is NaN. *)
MaxRange(s, lo, hi) ==
    IF \E j \in lo..hi : IsNaN(s[j]) THEN NaN
    ELSE LET k == CHOOSE k \in lo..hi : \A j \in lo..hi : Ge(s[k], s[j]) IN s[k]

MinRange(s, lo, hi) ==
    IF \E j \in lo..hi : IsNaN(s[j]) THEN NaN
    ELSE LET k == CHOOSE k \in lo..hi : \A j \in lo..hi : Le(s[k], s[j]) IN s[k]

(* s.rolling(window=w).max() and .min() at position i. *)
RollingMax(s, w, i) == IF ~RollingDefined(s, w, i) THEN NaN ELSE MaxRange(s, i - w + 1, i)
RollingMin(s, w, i) == IF ~RollingDefined(s, w, i) THEN NaN ELSE MinRange(s, i - w + 1, i)

(* s.rolling(window=w).std() at position i: pandas' default ddof = 1, the  *)
(* sample variance, which is unavailable for a single observation.         *)
RollingVar(s, w, i) ==
    IF ~RollingDefined(s, w, i) \/ w < 2 THEN NaN
    ELSE LET m == RollingMean(s, w, i)
             sq == [j \in 1..Len(s) |-> Mul(Sub(s[j], m), Sub(s[j], m))]
         IN  IF IsNaN(m) THEN NaN
             ELSE Div(SumRange(sq, i - w + 1, i), Num(w - 1))

RollingStd(s, w, i) == Sqrt(RollingVar(s, w, i))

(* pandas raises ValueError for rolling(window < 0) and for ewm(span < 1). *)
RollingValid(w) == w >= 0
EwmValid(span) == span >= 1

---------------------------------------------------------------------------
(* src/indicators/technical_indicators.py                                  *)

(* prices.diff(): the first position has no predecessor. *)
Diff(p) == [i \in 1..Len(p) |-> IF i = 1 THEN NaN ELSE Sub(p[i], p[i - 1])]

(* delta.where(delta > 0, 0): a NaN delta fails the test and becomes 0. *)
GainSeries(p) ==
    LET delta == Diff(p)
    IN  [i \in 1..Len(p) |-> IF Gt(delta[i], Num(0)) THEN delta[i] ELSE Num(0)]

(* The losses kept negative: the leading minus forgotten. *)
LossSeries_signed(p) ==
    LET delta == Diff(p)
    IN  [i \in 1..Len(p) |-> IF Lt(delta[i], Num(0)) THEN delta[i] ELSE Num(0)]

(* -delta.where(delta < 0, 0) *)
LossSeries(p) ==
    LET delta == Diff(p)
    IN  [i \in 1..Len(p) |-> Neg(IF Lt(delta[i], Num(0)) THEN delta[i] ELSE Num(0))]

RsiFromMeans(gain, loss) ==
    LET rs == Div(gain, loss)
    IN  Sub(Num(100), Div(Num(100), Add(Num(1), rs)))

calculate_rsi_at(p, period, i) ==
    RsiFromMeans(RollingMean(GainSeries(p), period, i),
                 RollingMean(LossSeries(p), period, i))

calculate_rsi(p, period) == [i \in 1..Len(p) |-> calculate_rsi_at(p, period, i)]

(* prices.ewm(span=period, adjust=False).mean(): seeded by the first value. *)
RECURSIVE calculate_ema_at(_, _, _)
calculate_ema_at(p, period, i) ==
    IF i = 1 THEN p[1]
    ELSE LET prev == calculate_ema_at(p, period, i - 1)
             alpha == Rat(2, period + 1)
         IN  IF prev = NaN THEN NaN
             ELSE Add(Mul(Sub(Num(1), alpha), prev), Mul(alpha, p[i]))

(* upper, middle, lower at position i. *)
calculate_bollinger_bands_at(p, period, std_dev, i) ==
    LET middle == RollingMean(p, period, i)
        std == RollingStd(p, period, i)
    IN  [upper |-> Add(middle, Mul(std, std_dev)),
         middle |-> middle,
         lower |-> Sub(middle, Mul(std, std_dev))]

calculate_bollinger_bands(p, period, std_dev) ==
    [i \in 1..Len(p) |-> calculate_bollinger_bands_at(p, period, std_dev, i)]

BollingerUpper(p, period, std_dev, i) == calculate_bollinger_bands_at(p, period, std_dev, i).upper

BollingerLower(p, period, std_dev, i) == calculate_bollinger_bands_at(p, period, std_dev, i).lower

(* Row-wise max of [tr1, tr2, tr3], skipping NaN: at the first position    *)
(* close.shift() is NaN and the true range is high - low.                  *)
TrueRange(high, low, close) ==
    [i \in 1..Len(high) |->
        LET tr1 == Sub(high[i], low[i])
        IN  IF i = 1 THEN tr1
            ELSE LET tr2 == FAbs(Sub(high[i], close[i - 1]))
                     tr3 == FAbs(Sub(low[i], close[i - 1]))
                     m == IF Gt(tr2, tr1) THEN tr2 ELSE tr1
                 IN  IF Gt(tr3, m) THEN tr3 ELSE m]

calculate_atr_at(high, low, close, period, i) ==
    RollingMean(TrueRange(high, low, close), period, i)

(* %K at position i: 100 * ((close - lowest_low) / (highest_high - lowest_low)) *)
calculate_stochastic_k(high, low, close, k_period, i) ==
    LET lowest_low == RollingMin(low, k_period, i)
        highest_high == RollingMax(high, k_period, i)
    IN  Mul(Num(100), Div(Sub(close[i], lowest_low), Sub(highest_high, lowest_low)))

(* %K and %D = k.rolling(window=d_period).mean() *)
calculate_stochastic(high, low, close, k_period, d_period) ==
    LET k == [i \in 1..Len(close) |-> calculate_stochastic_k(high, low, close, k_period, i)]
    IN  [k |-> k, d |-> [i \in 1..Len(close) |-> RollingMean(k, d_period, i)]]

(* Position in I of the smallest (largest) value, the first one on a tie:  *)
(* Series.nsmallest / nlargest with keep='first'.                          *)
ArgMin(s, I) == CHOOSE i \in I : \A j \in I : Lt(s[i], s[j]) \/ (s[i] = s[j] /\ i <= j)
ArgMax(s, I) == CHOOSE i \in I : \A j \in I : Gt(s[i], s[j]) \/ (s[i] = s[j] /\ i <= j)

(* recent.nsmallest(2).index: ascending by value. *)
NSmallest2(s, I) ==
    IF I = {} THEN <<>>
    ELSE LET a == ArgMin(s, I)
         IN  IF I \ {a} = {} THEN <<a>> ELSE <<a, ArgMin(s, I \ {a})>>

(* recent.nlargest(2).index: descending by value. *)
NLargest2(s, I) ==
    IF I = {} THEN <<>>
    ELSE LET a == ArgMax(s, I)
         IN  IF I \ {a} = {} THEN <<a>> ELSE <<a, ArgMax(s, I \ {a})>>

(* prices.iloc[-lookback:] as a set of positions. *)
Recent(p, lookback) == {i \in 1..Len(p) : i > Len(p) - lookback}

(* The two lows compared in order of occurrence. *)
BullishDivergence_chronological(p, ind, lookback) ==
    LET lows == NSmallest2(p, Recent(p, lookback))
        first == IF lows[1] < lows[2] THEN lows[1] ELSE lows[2]
        second == IF lows[1] < lows[2] THEN lows[2] ELSE lows[1]
    IN  /\ Len(lows) >= 2
        /\ Gt(p[second], p[first])
        /\ Lt(ind[second], ind[first])

BullishDivergence(p, ind, lookback) ==
    LET lows == NSmallest2(p, Recent(p, lookback))
    IN  /\ Len(lows) >= 2
        /\ Gt(p[lows[2]], p[lows[1]])
        /\ Lt(ind[lows[2]], ind[lows[1]])

BearishDivergence(p, ind, lookback) ==
    LET highs == NLargest2(p, Recent(p, lookback))
    IN  /\ Len(highs) >= 2
        /\ Lt(p[highs[2]], p[highs[1]])
        /\ Gt(ind[highs[2]], ind[highs[1]])

detect_divergence(p, ind, lookback) ==
    IF Len(p) < lookback * 2 THEN "None"
    ELSE IF BullishDivergence(p, ind, lookback) THEN "bullish"
    ELSE IF BearishDivergence(p, ind, lookback) THEN "bearish"
    ELSE "None"

---------------------------------------------------------------------------
(* The values a call returns: None, a Signal dict, or a raised exception.  *)

None == [kind |-> "None"]
Raised(e) == [kind |-> "Raised", error |-> e]
Signal(sig, entry, stop, take, conf, meta) ==
    [kind |-> "Signal", signal |-> sig, entry_price |-> entry, stop_loss |-> stop,
     take_profit |-> take, confidence |-> conf, meta |-> meta]

(* Columns of the OHLCV DataFrame. *)
Close(d) == [i \in 1..Len(d) |-> Num(d[i].close)]
High(d) == [i \in 1..Len(d) |-> Num(d[i].high)]
Low(d) == [i \in 1..Len(d) |-> Num(d[i].low)]
Volume(d) == [i \in 1..Len(d) |-> Num(d[i].volume)]

---------------------------------------------------------------------------
(* calculate_volume_profile (src/indicators/technical_indicators.py).      *)

(* bin_price = df['low'].min() + (i * bin_size), i in range(bins) *)
BinPrice(d, bins, i) ==
    LET low_min == MinRange(Low(d), 1, Len(d))
        price_range == Sub(MaxRange(High(d), 1, Len(d)), low_min)
        bin_size == Div(price_range, Num(bins))
    IN  Add(low_min, Mul(Num(i), bin_size))

(* The passes of the inner loop in which row r adds its volume under key k. *)
BinHits(d, bins, r, k) ==
    {i \in 0..(bins - 1) :
        /\ BinPrice(d, bins, i) = k
        /\ Le(Low(d)[r], k)
        /\ Le(k, High(d)[r])}

(* volume_profile after the loops: the keys written and what they hold. *)
VolumeProfile(d, bins) ==
    LET keys == {k \in {BinPrice(d, bins, i) : i \in 0..(bins - 1)} :
                    \E r \in 1..Len(d) : BinHits(d, bins, r, k) # {}}
    IN  [k \in keys |->
            SumRange([r \in 1..Len(d) |->
                         Mul(Volume(d)[r], Num(Cardinality(BinHits(d, bins, r, k))))],
                     1, Len(d))]

(* The row whose pass inserted key k into the dict. *)
FirstRow(d, bins, k) ==
    CHOOSE r \in 1..Len(d) :
        /\ BinHits(d, bins, r, k) # {}
        /\ \A q \in 1..(r - 1) : BinHits(d, bins, q, k) = {}

(* max(volume_profile, key=volume_profile.get): the first key, in          *)
(* insertion order, of the largest volume; None for an empty profile.      *)
PointOfControl(d, bins) ==
    LET profile == VolumeProfile(d, bins)
        before(k, j) == \/ FirstRow(d, bins, k) < FirstRow(d, bins, j)
                        \/ FirstRow(d, bins, k) = FirstRow(d, bins, j) /\ Le(k, j)
    IN  IF DOMAIN profile = {} THEN NaN
        ELSE CHOOSE k \in DOMAIN profile :
                \A j \in DOMAIN profile :
                    \/ Gt(profile[k], profile[j])
                    \/ profile[k] = profile[j] /\ before(k, j)

calculate_volume_profile(d, bins) ==
    [profile |-> VolumeProfile(d, bins),
     poc |-> PointOfControl(d, bins),
     value_area_high |-> MaxRange(High(d), 1, Len(d)),
     value_area_low |-> MinRange(Low(d), 1, Len(d))]

---------------------------------------------------------------------------
(* src/strategies/volume_breakout.py                                       *)

VolumeBreakoutStrategy_init(volume_multiplier) ==
    [name |-> "Volume Breakout", volume_multiplier |-> volume_multiplier]

VolumeBreakoutStrategy_calculate_stop_loss(self, d, entry_price, signal) ==
    IF signal = "long"
    THEN Mul(RollingMin(Low(d), 10, Len(d)), Rat(995, 1000))
    ELSE Mul(RollingMax(High(d), 10, Len(d)), Rat(1005, 1000))

VolumeBreakoutStrategy_calculate_take_profit(entry_price, stop_loss, risk_reward_ratio) ==
    LET risk == FAbs(Sub(entry_price, stop_loss))
        reward == Mul(risk, risk_reward_ratio)
    IN  IF Gt(entry_price, stop_loss) THEN Add(entry_price, reward)
        ELSE Sub(entry_price, reward)

(* len(df) < 20 *)
VolumeBreakoutStrategy_too_short(self, d) == Len(d) < 20

(* current_volume < avg_volume * self.volume_multiplier *)
VolumeBreakoutStrategy_low_volume(self, d) ==
    Lt(Volume(d)[Len(d)], Mul(RollingMean(Volume(d), 10, Len(d)), self.volume_multiplier))

(* The rolling extremes read at iloc[-1], the current candle included. *)
VolumeBreakoutStrategy_direction_current(self, d) ==
    LET current_price == Close(d)[Len(d)]
        recent_high == RollingMax(High(d), 20, Len(d))
        recent_low == RollingMin(Low(d), 20, Len(d))
    IN  IF Gt(current_price, recent_high) THEN "long"
        ELSE IF Lt(current_price, recent_low) THEN "short"
        ELSE "None"

(* The prior extremes over whatever candles precede the current one. *)
VolumeBreakoutStrategy_direction_partial(self, d) ==
    LET current_price == Close(d)[Len(d)]
        recent_high == MaxRange(High(d), 1, Len(d) - 1)
        recent_low == MinRange(Low(d), 1, Len(d) - 1)
    IN  IF Gt(current_price, recent_high) THEN "long"
        ELSE IF Lt(current_price, recent_low) THEN "short"
        ELSE "None"

(* The if / elif on the prior 20-period high and low, read at iloc[-2]. *)
VolumeBreakoutStrategy_direction(self, d) ==
    LET current_price == Close(d)[Len(d)]
        recent_high == RollingMax(High(d), 20, Len(d) - 1)
        recent_low == RollingMin(Low(d), 20, Len(d) - 1)
    IN  IF Gt(current_price, recent_high) THEN "long"
        ELSE IF Lt(current_price, recent_low) THEN "short"
        ELSE "None"

(* The linear term without the cap. *)
VolumeBreakoutStrategy_confidence_uncapped(volume_ratio) ==
    Add(Rat(1, 2), Mul(Sub(volume_ratio, Num(2)), Rat(1, 10)))

(* min(0.9, 0.5 + (volume_ratio - 2) * 0.1) *)
VolumeBreakoutStrategy_confidence(volume_ratio) ==
    PyMin(Rat(9, 10), Add(Rat(1, 2), Mul(Sub(volume_ratio, Num(2)), Rat(1, 10))))

VolumeBreakoutStrategy_generate_signal(self, d) ==
    IF VolumeBreakoutStrategy_too_short(self, d) THEN None
    ELSE IF VolumeBreakoutStrategy_low_volume(self, d) THEN None
    ELSE LET signal == VolumeBreakoutStrategy_direction(self, d)
             entry_price == Close(d)[Len(d)]
             stop_loss == VolumeBreakoutStrategy_calculate_stop_loss(self, d, entry_price, signal)
             take_profit == VolumeBreakoutStrategy_calculate_take_profit(entry_price, stop_loss, Num(2))
             volume_ratio == Div(Volume(d)[Len(d)], RollingMean(Volume(d), 10, Len(d)))
             confidence == VolumeBreakoutStrategy_confidence(volume_ratio)
         IN  IF signal # "None"
             THEN Signal(signal, entry_price, stop_loss, take_profit, confidence,
                         [volume_ratio |-> volume_ratio])
             ELSE None

---------------------------------------------------------------------------
(* src/strategies/rsi_divergence.py                                        *)

RSIDivergenceStrategy_init(rsi_period, rsi_oversold, rsi_overbought) ==
    [name |-> "RSI Divergence", rsi_period |-> rsi_period,
     rsi_oversold |-> rsi_oversold, rsi_overbought |-> rsi_overbought]

RSIDivergenceStrategy_calculate_stop_loss(self, d, entry_price, signal) ==
    IF signal = "long"
    THEN Mul(RollingMin(Low(d), 10, Len(d)), Rat(98, 100))
    ELSE Mul(RollingMax(High(d), 10, Len(d)), Rat(102, 100))

RSIDivergenceStrategy_calculate_take_profit(entry_price, stop_loss, risk_reward_ratio) ==
    LET risk == FAbs(Sub(entry_price, stop_loss))
        reward == Mul(risk, risk_reward_ratio)
    IN  IF Gt(entry_price, stop_loss) THEN Add(entry_price, reward)
        ELSE Sub(entry_price, reward)

(* len(df) < self.rsi_period + 20 *)
RSIDivergenceStrategy_too_short(self, d) == Len(d) < self.rsi_period + 20

(* The if / elif on the divergence and the current RSI. *)
RSIDivergenceStrategy_direction(self, divergence, current_rsi) ==
    IF divergence = "bullish" /\ Lt(current_rsi, Num(self.rsi_overbought)) THEN "long"
    ELSE IF divergence = "bearish" /\ Gt(current_rsi, Num(self.rsi_oversold)) THEN "short"
    ELSE "None"

(* Confidence graded against the gate's own threshold. *)
RSIDivergenceStrategy_confidence_gate(self, signal, current_rsi) ==
    IF signal = "long"
    THEN (IF Lt(current_rsi, Num(self.rsi_overbought)) THEN Rat(7, 10) ELSE Rat(5, 10))
    ELSE IF signal = "short"
    THEN (IF Gt(current_rsi, Num(self.rsi_oversold)) THEN Rat(7, 10) ELSE Rat(5, 10))
    ELSE Num(0)

RSIDivergenceStrategy_confidence(self, signal, current_rsi) ==
    IF signal = "long"
    THEN (IF Lt(current_rsi, Num(self.rsi_oversold)) THEN Rat(7, 10) ELSE Rat(5, 10))
    ELSE IF signal = "short"
    THEN (IF Gt(current_rsi, Num(self.rsi_overbought)) THEN Rat(7, 10) ELSE Rat(5, 10))
    ELSE Num(0)

RSIDivergenceStrategy_generate_signal(self, d) ==
    IF RSIDivergenceStrategy_too_short(self, d) THEN None
    ELSE IF ~RollingValid(self.rsi_period) THEN Raised("ValueError")
    ELSE LET rsi == calculate_rsi(Close(d), self.rsi_period)
             current_rsi == rsi[Len(d)]
             divergence == detect_divergence(Close(d), rsi, 10)
             entry_price == Close(d)[Len(d)]
             signal == RSIDivergenceStrategy_direction(self, divergence, current_rsi)
             confidence == RSIDivergenceStrategy_confidence(self, signal, current_rsi)
             stop_loss == RSIDivergenceStrategy_calculate_stop_loss(self, d, entry_price, signal)
             take_profit == RSIDivergenceStrategy_calculate_take_profit(entry_price, stop_loss, Num(3))
         IN  IF signal # "None"
             THEN Signal(signal, entry_price, stop_loss, take_profit, confidence,
                         [rsi |-> current_rsi])
             ELSE None

---------------------------------------------------------------------------
(* src/strategies/bollinger_squeeze.py                                     *)

BollingerSqueezeStrategy_init(bb_period, bb_std, atr_period) ==
    [name |-> "Bollinger Squeeze", bb_period |-> bb_period, bb_std |-> bb_std,
     atr_period |-> atr_period]

BollingerSqueezeStrategy_calculate_stop_loss(self, d, entry_price, signal) ==
    LET current_atr == calculate_atr_at(High(d), Low(d), Close(d), self.atr_period, Len(d))
    IN  IF signal = "long" THEN Sub(entry_price, Mul(current_atr, Rat(13, 10)))
        ELSE Add(entry_price, Mul(current_atr, Rat(13, 10)))

BollingerSqueezeStrategy_calculate_take_profit(entry_price, stop_loss, risk_reward_ratio) ==
    LET risk == FAbs(Sub(entry_price, stop_loss))
        reward == Mul(risk, risk_reward_ratio)
    IN  IF Gt(entry_price, stop_loss) THEN Add(entry_price, reward)
        ELSE Sub(entry_price, reward)

Max2(a, b) == IF a > b THEN a ELSE b

(* len(df) < max(self.bb_period, self.atr_period) + 20 *)
BollingerSqueezeStrategy_too_short(self, d) ==
    Len(d) < Max2(self.bb_period, self.atr_period) + 20

(* (bb_upper - bb_lower) / df['close'] *)
BandWidth(self, d) ==
    [i \in 1..Len(d) |->
        LET bands == calculate_bollinger_bands_at(Close(d), self.bb_period, self.bb_std, i)
        IN  Div(Sub(bands.upper, bands.lower), Close(d)[i])]

AtrSeries(self, d) ==
    [i \in 1..Len(d) |-> calculate_atr_at(High(d), Low(d), Close(d), self.atr_period, i)]

(* is_squeeze = bb_width < avg_bb_width * 0.7 and current_atr < avg_atr * 0.8 *)
BollingerSqueezeStrategy_is_squeeze(self, d) ==
    LET bb_width == BandWidth(self, d)[Len(d)]
        avg_bb_width == RollingMean(BandWidth(self, d), 15, Len(d))
        current_atr == AtrSeries(self, d)[Len(d)]
        avg_atr == RollingMean(AtrSeries(self, d), 15, Len(d))
    IN  /\ Lt(bb_width, Mul(avg_bb_width, Rat(7, 10)))
        /\ Lt(current_atr, Mul(avg_atr, Rat(8, 10)))

(* Past the squeeze test the method rebinds `signal`, the MACD signal line *)
(* returned by calculate_macd, to None (line 67) and then reads            *)
(* signal.iloc[-1] (line 72): AttributeError on every squeeze, before any  *)
(* breakout test.  calculate_macd itself (line 46) cannot fail on numeric  *)
(* closes and changes nothing.                                             *)
BollingerSqueezeStrategy_after_squeeze(self, d) == Raised("AttributeError")

BollingerSqueezeStrategy_generate_signal(self, d) ==
    IF BollingerSqueezeStrategy_too_short(self, d) THEN None
    ELSE IF ~RollingValid(self.bb_period) \/ ~RollingValid(self.atr_period)
         THEN Raised("ValueError")
    ELSE IF ~BollingerSqueezeStrategy_is_squeeze(self, d) THEN None
    ELSE BollingerSqueezeStrategy_after_squeeze(self, d)

---------------------------------------------------------------------------
(* src/strategies/ema_crossover.py                                         *)

EMACrossoverStrategy_init(fast_period, slow_period, volume_multiplier) ==
    [name |-> "EMA Crossover", fast_period |-> fast_period, slow_period |-> slow_period,
     volume_multiplier |-> volume_multiplier]

EMACrossoverStrategy_calculate_stop_loss(self, d, entry_price, signal) ==
    IF signal = "long"
    THEN Mul(RollingMin(Low(d), 10, Len(d)), Rat(995, 1000))
    ELSE Mul(RollingMax(High(d), 10, Len(d)), Rat(1005, 1000))

(* The risk taken signed, without abs(). *)
EMACrossoverStrategy_calculate_take_profit_signed(entry_price, stop_loss, risk_reward_ratio) ==
    LET risk == Sub(entry_price, stop_loss)
        reward == Mul(risk, risk_reward_ratio)
    IN  IF Gt(entry_price, stop_loss) THEN Add(entry_price, reward)
        ELSE Sub(entry_price, reward)

EMACrossoverStrategy_calculate_take_profit(entry_price, stop_loss, risk_reward_ratio) ==
    LET risk == FAbs(Sub(entry_price, stop_loss))
        reward == Mul(risk, risk_reward_ratio)
    IN  IF Gt(entry_price, stop_loss) THEN Add(entry_price, reward)
        ELSE Sub(entry_price, reward)

(* The guard without the five extra candles. *)
EMACrossoverStrategy_too_short_bare(self, d) == Len(d) < self.slow_period

(* len(df) < self.slow_period + 5 *)
EMACrossoverStrategy_too_short(self, d) == Len(d) < self.slow_period + 5

(* current_volume < avg_volume * self.volume_multiplier *)
EMACrossoverStrategy_low_volume(self, d) ==
    Lt(Volume(d)[Len(d)], Mul(RollingMean(Volume(d), 10, Len(d)), self.volume_multiplier))

(* A cross that must start strictly on the other side. *)
EMACrossoverStrategy_direction_strict(prev_fast, prev_slow, current_fast, current_slow) ==
    IF Lt(prev_fast, prev_slow) /\ Gt(current_fast, current_slow) THEN "long"
    ELSE IF Gt(prev_fast, prev_slow) /\ Lt(current_fast, current_slow) THEN "short"
    ELSE "None"

(* The if / elif on the previous and the current EMA pair. *)
EMACrossoverStrategy_direction(prev_fast, prev_slow, current_fast, current_slow) ==
    IF Le(prev_fast, prev_slow) /\ Gt(current_fast, current_slow) THEN "long"
    ELSE IF Ge(prev_fast, prev_slow) /\ Lt(current_fast, current_slow) THEN "short"
    ELSE "None"

EMACrossoverStrategy_confidence(signal, current_fast, current_slow) ==
    IF signal = "long"
    THEN (IF Gt(current_fast, Mul(current_slow, Rat(101, 100))) THEN Rat(7, 10) ELSE Rat(5, 10))
    ELSE IF signal = "short"
    THEN (IF Lt(current_fast, Mul(current_slow, Rat(99, 100))) THEN Rat(7, 10) ELSE Rat(5, 10))
    ELSE Rat(6, 10)

EMACrossoverStrategy_generate_signal(self, d) ==
    IF EMACrossoverStrategy_too_short(self, d) THEN None
    ELSE IF ~EwmValid(self.fast_period) \/ ~EwmValid(self.slow_period)
         THEN Raised("ValueError")
    ELSE IF EMACrossoverStrategy_low_volume(self, d) THEN None
    ELSE LET current_fast == calculate_ema_at(Close(d), self.fast_period, Len(d))
             current_slow == calculate_ema_at(Close(d), self.slow_period, Len(d))
             prev_fast == calculate_ema_at(Close(d), self.fast_period, Len(d) - 1)
             prev_slow == calculate_ema_at(Close(d), self.slow_period, Len(d) - 1)
             entry_price == Close(d)[Len(d)]
             signal == EMACrossoverStrategy_direction(prev_fast, prev_slow,
                                                      current_fast, current_slow)
             confidence == EMACrossoverStrategy_confidence(signal, current_fast, current_slow)
             stop_loss == EMACrossoverStrategy_calculate_stop_loss(self, d, entry_price, signal)
             take_profit == EMACrossoverStrategy_calculate_take_profit(entry_price, stop_loss,
                                                                       Rat(5, 2))
         IN  IF signal # "None"
             THEN Signal(signal, entry_price, stop_loss, take_profit, confidence,
                         [ema_fast |-> current_fast, ema_slow |-> current_slow])
             ELSE None

(* Dispatch on the object's class. *)
generate_signal(self, d) ==
    CASE self.name = "Volume Breakout" -> VolumeBreakoutStrategy_generate_signal(self, d)
      [] self.name = "RSI Divergence" -> RSIDivergenceStrategy_generate_signal(self, d)
      [] self.name = "Bollinger Squeeze" -> BollingerSqueezeStrategy_generate_signal(self, d)
      [] self.name = "EMA Crossover" -> EMACrossoverStrategy_generate_signal(self, d)

calculate_take_profit(self, entry_price, stop_loss, risk_reward_ratio) ==
    CASE self.name = "Volume Breakout" ->
            VolumeBreakoutStrategy_calculate_take_profit(entry_price, stop_loss, risk_reward_ratio)
      [] self.name = "RSI Divergence" ->
            RSIDivergenceStrategy_calculate_take_profit(entry_price, stop_loss, risk_reward_ratio)
      [] self.name = "Bollinger Squeeze" ->
            BollingerSqueezeStrategy_calculate_take_profit(entry_price, stop_loss, risk_reward_ratio)
      [] self.name = "EMA Crossover" ->
            EMACrossoverStrategy_calculate_take_profit(entry_price, stop_loss, risk_reward_ratio)

---------------------------------------------------------------------------
(* Inputs.                                                                 *)

MaxTail == 3
MaxSamples == 3

Candle(o, h, l, c, v) == [open |-> o, high |-> h, low |-> l, close |-> c, volume |-> v]

(* A candle closing at c with a high-low range of 2r around it. *)
Bar(c, r, v) == Candle(c, c + r, c - r, c, v)

BaseCandle == Bar(100, 10, 10)

History(n) == [i \in 1..n |-> BaseCandle]

NoObj == [name |-> "none"]
NoResult == [op |-> "none"]
NoOut == [fn |-> "none"]

VolumeMultipliers == {Num(2), Num(0)}
RSIParams == {<<2, 30, 70>>, <<-1, 30, 70>>}
BollingerParams == {<<2, Num(2), 1>>, <<-1, Num(2), 1>>}
EMAParams == {<<2, 4, Rat(3, 2)>>, <<0, 3, Rat(3, 2)>>}

HistoryLengths(self) ==
    CASE self.name = "Volume Breakout" -> {18, 20}
      [] self.name = "RSI Divergence" -> {19, 20}
      [] self.name = "Bollinger Squeeze" -> {20, 21}
      [] self.name = "EMA Crossover" -> {6, 8}

FreeCandles(self) ==
    CASE self.name = "Volume Breakout" ->
            {Bar(c, 10, v) : c \in {80, 105, 130}, v \in {10, 200}}
      [] self.name = "RSI Divergence" ->
            {Bar(c, 10, 10) : c \in {80, 95, 105, 120}}
      [] self.name = "Bollinger Squeeze" ->
            {Bar(100, 1, 10), Bar(130, 1, 10), Bar(131, 1, 10), Bar(131, 0, 10)}
      [] self.name = "EMA Crossover" ->
            {Bar(c, 10, v) : c \in {70, 99, 101, 130}, v \in {10, 30}}

TakeProfitPrices == {Num(90), Num(100), Rat(1995, 10)}
RiskRewardRatios == {Num(2), Rat(5, 2), Num(3)}

(* Direct calls of the indicator library: a flat price series with an      *)
(* indicator value per sample, extended by up to MaxSamples samples.       *)
FlatPrices == <<Num(2), Num(2), Num(2)>>
FlatIndicator == <<Num(10), Num(10), Num(10)>>
LibPrices == {Num(1), Num(2), Num(3)}
LibIndicator == {NaN, Num(10), Num(20)}
LibLookbacks == {1, 2, 3}
LibPeriods == {1, 2, 3, 4}
(* DataLoader.get_ohlcv: `if batch > 100`, the end of the requested span  *)
(* in candle timestamps (far enough for the batch limit to be met), and   *)
(* the cap on the count of logged fetch errors.                           *)
MaxBatches == 100
end_time == MaxBatches + 2
MaxFailed == 2

(* The loader before get_ohlcv is called. *)
NotCalled ==
    [pc |-> "start", batch |-> 0, all_candles |-> <<>>, current_since |-> 0,
     raised |-> FALSE, candles |-> <<>>, failed |-> 0, ret |-> <<>>]

(* What exchange.fetch_ohlcv(since=current_since) may hand back: no       *)
(* candle, the next candle, or a candle at the end of the span.           *)
ExchangeBatches(current_since) == {<<>>, <<current_since>>, <<end_time>>}

(* calculate_volume_profile: the candles of the frame and the bin counts. *)
MaxCandles == 3
ProfileCandles == {Bar(100, 0, 10), Bar(100, 10, 20), Bar(115, 5, 10)}
ProfileBins == {1, 2, 4}

(* calculate_bollinger_bands: <<period, std_dev>> *)
BandParams == {<<1, Num(2)>>, <<2, Num(2)>>, <<3, Num(1)>>}
(* calculate_stochastic: <<k_period, d_period>>, and the level of a high   *)
(* and of a low series passed along with the prices as closes.             *)
StochasticPeriods == {<<1, 1>>, <<2, 2>>, <<3, 2>>}
StochasticLevels == {<<Num(2), Num(2)>>, <<Num(3), Num(1)>>}
Level(v, n) == [i \in 1..n |-> v]

---------------------------------------------------------------------------
(* The state machine.                                                      *)

Init ==
    /\ strategy = NoObj
    /\ df = <<>>
    /\ fed = 0
    /\ result = NoResult
    /\ prices = FlatPrices
    /\ indicator = FlatIndicator
    /\ out = NoOut
    /\ loader = NotCalled

ConstructVolumeBreakout ==
    /\ strategy = NoObj
    /\ \E m \in VolumeMultipliers : strategy' = VolumeBreakoutStrategy_init(m)
    /\ UNCHANGED <<df, fed, result, prices, indicator, out, loader>>

ConstructRSIDivergence ==
    /\ strategy = NoObj
    /\ \E p \in RSIParams : strategy' = RSIDivergenceStrategy_init(p[1], p[2], p[3])
    /\ UNCHANGED <<df, fed, result, prices, indicator, out, loader>>

ConstructBollingerSqueeze ==
    /\ strategy = NoObj
    /\ \E p \in BollingerParams : strategy' = BollingerSqueezeStrategy_init(p[1], p[2], p[3])
    /\ UNCHANGED <<df, fed, result, prices, indicator, out, loader>>

ConstructEMACrossover ==
    /\ strategy = NoObj
    /\ \E p \in EMAParams : strategy' = EMACrossoverStrategy_init(p[1], p[2], p[3])
    /\ UNCHANGED <<df, fed, result, prices, indicator, out, loader>>

(* The data source hands over the history. *)
LoadHistory ==
    /\ strategy # NoObj
    /\ df = <<>>
    /\ result = NoResult
    /\ \E n \in HistoryLengths(strategy) : df' = History(n)
    /\ UNCHANGED <<strategy, fed, result, prices, indicator, out, loader>>

(* One more candle closes. *)
Feed ==
    /\ strategy # NoObj
    /\ df # <<>>
    /\ result = NoResult
    /\ fed < MaxTail
    /\ \E c \in FreeCandles(strategy) : df' = Append(df, c)
    /\ fed' = fed + 1
    /\ UNCHANGED <<strategy, result, prices, indicator, out, loader>>

GenerateSignal ==
    /\ strategy # NoObj
    /\ df # <<>>
    /\ result = NoResult
    /\ result' = [op |-> "generate_signal", args |-> <<>>, ret |-> generate_signal(strategy, df)]
    /\ UNCHANGED <<strategy, df, fed, prices, indicator, out, loader>>

(* A call that pops the newest candle off the caller's window. *)
GenerateSignalAgain_consuming ==
    /\ strategy # NoObj
    /\ result.op = "generate_signal"
    /\ "calls" \notin DOMAIN result
    /\ Len(df) > 1
    /\ df' = SubSeq(df, 1, Len(df) - 1)
    /\ result' = [op |-> "generate_signal", args |-> <<>>,
                  ret |-> generate_signal(strategy, df'), calls |-> 2]
    /\ UNCHANGED <<strategy, fed, prices, indicator, out, loader>>

(* The same object is asked again about the same window: the methods      *)
(* assign to no attribute of self and to no column of df.                 *)
GenerateSignalAgain ==
    /\ strategy # NoObj
    /\ result.op = "generate_signal"
    /\ "calls" \notin DOMAIN result
    /\ result' = [op |-> "generate_signal", args |-> <<>>,
                  ret |-> generate_signal(strategy, df), calls |-> 2]
    /\ UNCHANGED <<strategy, df, fed, prices, indicator, out, loader>>

CalculateTakeProfit ==
    /\ strategy # NoObj
    /\ df = <<>>
    /\ result = NoResult
    /\ \E e \in TakeProfitPrices, s \in TakeProfitPrices, r \in RiskRewardRatios :
          result' = [op |-> "calculate_take_profit", args |-> <<e, s, r>>,
                     ret |-> calculate_take_profit(strategy, e, s, r)]
    /\ UNCHANGED <<strategy, df, fed, prices, indicator, out, loader>>

Next ==
    \/ ConstructVolumeBreakout
    \/ ConstructRSIDivergence
    \/ ConstructBollingerSqueeze
    \/ ConstructEMACrossover
    \/ LoadHistory
    \/ Feed
    \/ GenerateSignal
    \/ GenerateSignalAgain
    \/ CalculateTakeProfit

Spec == Init /\ [][Next]_vars

(* The indicator functions called on their own. *)
PushSample ==
    /\ out = NoOut
    /\ Len(prices) < Len(FlatPrices) + MaxSamples
    /\ \E p \in LibPrices, v \in LibIndicator :
          /\ prices' = Append(prices, p)
          /\ indicator' = Append(indicator, v)
    /\ UNCHANGED <<strategy, df, fed, result, out, loader>>

DetectDivergence ==
    /\ out = NoOut
    /\ \E lookback \in LibLookbacks :
          out' = [fn |-> "detect_divergence", lookback |-> lookback,
                  ret |-> detect_divergence(prices, indicator, lookback)]
    /\ UNCHANGED <<strategy, df, fed, result, prices, indicator, loader>>

CalculateRSI ==
    /\ out = NoOut
    /\ \E period \in LibPeriods :
          out' = [fn |-> "calculate_rsi", period |-> period,
                  ret |-> calculate_rsi(prices, period)]
    /\ UNCHANGED <<strategy, df, fed, result, prices, indicator, loader>>

CalculateStochastic ==
    /\ out = NoOut
    /\ \E p \in StochasticPeriods, lv \in StochasticLevels :
          LET high == Level(lv[1], Len(prices))
              low == Level(lv[2], Len(prices))
          IN  out' = [fn |-> "calculate_stochastic", k_period |-> p[1], d_period |-> p[2],
                      high |-> high, low |-> low,
                      ret |-> calculate_stochastic(high, low, prices, p[1], p[2])]
    /\ UNCHANGED <<strategy, df, fed, result, prices, indicator, loader>>

CalculateBollingerBands ==
    /\ out = NoOut
    /\ \E p \in BandParams :
          out' = [fn |-> "calculate_bollinger_bands", period |-> p[1], std_dev |-> p[2],
                  ret |-> calculate_bollinger_bands(prices, p[1], p[2])]
    /\ UNCHANGED <<strategy, df, fed, result, prices, indicator, loader>>

NextLib ==
    \/ PushSample
    \/ DetectDivergence
    \/ CalculateRSI
    \/ CalculateStochastic
    \/ CalculateBollingerBands

SpecLib == Init /\ [][NextLib]_vars

(* calculate_volume_profile called on a frame built candle by candle. *)
PushCandle ==
    /\ out = NoOut
    /\ Len(df) < MaxCandles
    /\ \E c \in ProfileCandles : df' = Append(df, c)
    /\ UNCHANGED <<strategy, fed, result, prices, indicator, out, loader>>

CalculateVolumeProfile ==
    /\ out = NoOut
    /\ df # <<>>
    /\ \E bins \in ProfileBins :
          out' = [fn |-> "calculate_volume_profile", bins |-> bins,
                  ret |-> calculate_volume_profile(df, bins)]
    /\ UNCHANGED <<strategy, df, fed, result, prices, indicator, loader>>

NextProfile ==
    \/ PushCandle
    \/ CalculateVolumeProfile

SpecProfile == Init /\ [][NextProfile]_vars

(* DataLoader.get_ohlcv (src/data_loader.py): one action per step of the *)
(* pagination loop.  A candle is its timestamp; the returned DataFrame is *)
(* the sequence of its rows.                                              *)

(* The call, up to the head of `while True`. *)
GetOhlcv ==
    /\ loader.pc = "start"
    /\ loader' = [NotCalled EXCEPT !.pc = "fetch"]
    /\ UNCHANGED <<strategy, df, fed, result, prices, indicator, out>>

(* self.exchange.fetch_ohlcv(...): the exchange answers or raises. *)
FetchOhlcv ==
    /\ loader.pc = "fetch"
    /\ \/ \E c \in ExchangeBatches(loader.current_since) :
              loader' = [loader EXCEPT !.pc = "received", !.raised = FALSE, !.candles = c]
       \/ loader' = [loader EXCEPT !.pc = "except", !.raised = TRUE, !.candles = <<>>]
    /\ UNCHANGED <<strategy, df, fed, result, prices, indicator, out>>

(* The loop is left: the DataFrame is built from all_candles and returned. *)
Return(l) == [l EXCEPT !.pc = "returned", !.ret = l.all_candles]

(* The body of the inner try after the fetch came back. *)
ReceiveBatch ==
    /\ loader.pc = "received"
    /\ LET candles == loader.candles
           extended == [loader EXCEPT !.all_candles = loader.all_candles \o candles,
                                      !.batch = loader.batch + 1]
           last_timestamp == candles[Len(candles)]
           advanced == [extended EXCEPT !.current_since = last_timestamp + 1]
       IN  loader' =
             IF candles = <<>> THEN Return(loader)
             ELSE IF last_timestamp >= end_time THEN Return(extended)
             ELSE IF advanced.batch > MaxBatches THEN Return(advanced)
             ELSE [advanced EXCEPT !.pc = "fetch"]
    /\ UNCHANGED <<strategy, df, fed, result, prices, indicator, out>>

(* except Exception: the error is logged; `continue` when batch == 1,     *)
(* `break` otherwise.  failed counts the logged errors, up to MaxFailed.  *)
HandleError ==
    /\ loader.pc = "except"
    /\ LET logged == [loader EXCEPT !.failed = IF loader.failed < MaxFailed
                                               THEN loader.failed + 1
                                               ELSE loader.failed]
       IN  loader' = IF loader.batch = 1
                     THEN [logged EXCEPT !.pc = "fetch"]
                     ELSE Return(logged)
    /\ UNCHANGED <<strategy, df, fed, result, prices, indicator, out>>

NextLoader ==
    \/ GetOhlcv
    \/ FetchOhlcv
    \/ ReceiveBatch
    \/ HandleError

SpecLoader == Init /\ [][NextLoader]_vars

(* The loader runs sequentially and fetch_ohlcv comes back (with candles  *)
(* or with an exception), so a step that can be taken is taken.           *)
FairSpecLoader == SpecLoader /\ WF_vars(NextLoader)

---------------------------------------------------------------------------
(* Properties.                                                             *)

Generated == result.op = "generate_signal"
Last == Len(df)

IsSignal(r, side) == r.kind = "Signal" /\ r.signal = side

(* C1: every Signal returned by generate_signal, of any strategy on any    *)
(* window with any constructor parameters, has its stop and its target on  *)
(* the correct side of the entry (long: stop < entry < target, short:      *)
(* target < entry < stop), so neither of them is NaN.                      *)
C1_StopAndTargetOnCorrectSide ==
    (Generated /\ result.ret.kind = "Signal") =>
        LET r == result.ret
        IN  /\ ~IsNaN(r.stop_loss)
            /\ ~IsNaN(r.take_profit)
            /\ r.signal = "long" =>
                  Lt(r.stop_loss, r.entry_price) /\ Lt(r.entry_price, r.take_profit)
            /\ r.signal = "short" =>
                  Lt(r.take_profit, r.entry_price) /\ Lt(r.entry_price, r.stop_loss)

SqueezeInsideBands ==
    /\ strategy.name = "Bollinger Squeeze"
    /\ Last >= Max2(strategy.bb_period, strategy.atr_period) + 20
    /\ BollingerSqueezeStrategy_is_squeeze(strategy, df)
    /\ Le(BollingerLower(Close(df), strategy.bb_period, strategy.bb_std, Last), Close(df)[Last])
    /\ Le(Close(df)[Last], BollingerUpper(Close(df), strategy.bb_period, strategy.bb_std, Last))

(* C2: Bollinger Squeeze returns None, normally, on every window with      *)
(* enough history where the squeeze holds and the close is inside both     *)
(* bands.                                                                  *)
C2_SqueezeInsideBandsReturnsNone ==
    (Generated /\ SqueezeInsideBands) => result.ret = None

(* C3: Volume Breakout, when the current volume is at least                *)
(* volume_multiplier times the 10-period mean volume, returns Long with    *)
(* entry_price = close if the close exceeds every high of the 20 candles   *)
(* before the current one, Short if it is below every low of those 20, and *)
(* None otherwise; when the volume is below the threshold it returns None. *)
C3_VolumeBreakoutDirection ==
    (Generated /\ strategy.name = "Volume Breakout") =>
        LET close == Close(df)[Last]
            prior == (Last - 20)..(Last - 1)
            above == Last >= 21 /\ \A j \in prior : Gt(close, High(df)[j])
            below == Last >= 21 /\ \A j \in prior : Lt(close, Low(df)[j])
            threshold == Mul(RollingMean(Volume(df), 10, Last), strategy.volume_multiplier)
        IN  /\ Lt(Volume(df)[Last], threshold) => result.ret = None
            /\ Ge(Volume(df)[Last], threshold) =>
                  IF above THEN IsSignal(result.ret, "long") /\ result.ret.entry_price = close
                  ELSE IF below
                       THEN IsSignal(result.ret, "short") /\ result.ret.entry_price = close
                  ELSE result.ret = None

C3_Witness ==
    /\ Generated
    /\ strategy.name = "Volume Breakout"
    /\ strategy.volume_multiplier = Num(2)
    /\ IsSignal(result.ret, "long")
    /\ result.ret.entry_price = Num(130)
    /\ df[Last - 1].close = 80

(* C4: EMA Crossover (spans pandas accepts), on a window of at least       *)
(* slow_period + 5 candles that the volume test lets through, returns Long *)
(* exactly when fast <= slow on the previous candle and fast > slow on the *)
(* current one (confidence 0.7 if fast > 1.01 x slow, else 0.5), Short     *)
(* exactly on the mirrored cross (0.7 if fast < 0.99 x slow, else 0.5) and *)
(* None otherwise; a Long carries ema_fast > ema_slow.                     *)
C4_CrossoverDirection ==
    (/\ Generated
     /\ strategy.name = "EMA Crossover"
     /\ strategy.fast_period >= 1
     /\ strategy.slow_period >= 1
     /\ Last >= strategy.slow_period + 5
     /\ ~Lt(Volume(df)[Last],
            Mul(RollingMean(Volume(df), 10, Last), strategy.volume_multiplier))) =>
        LET fast == calculate_ema_at(Close(df), strategy.fast_period, Last)
            slow == calculate_ema_at(Close(df), strategy.slow_period, Last)
            fast0 == calculate_ema_at(Close(df), strategy.fast_period, Last - 1)
            slow0 == calculate_ema_at(Close(df), strategy.slow_period, Last - 1)
            up == Le(fast0, slow0) /\ Gt(fast, slow)
            down == Ge(fast0, slow0) /\ Lt(fast, slow)
            r == result.ret
        IN  /\ IsSignal(r, "long") <=> up
            /\ IsSignal(r, "short") <=> down
            /\ r = None <=> (~up /\ ~down)
            /\ IsSignal(r, "long") =>
                  /\ r.confidence = IF Gt(fast, Mul(slow, Rat(101, 100)))
                                    THEN Rat(7, 10) ELSE Rat(5, 10)
                  /\ Gt(r.meta.ema_fast, r.meta.ema_slow)
            /\ IsSignal(r, "short") =>
                  r.confidence = IF Lt(fast, Mul(slow, Rat(99, 100)))
                                 THEN Rat(7, 10) ELSE Rat(5, 10)

C4_Witness ==
    /\ Generated
    /\ strategy.name = "EMA Crossover"
    /\ Last >= 10
    /\ Volume(df)[Last] = Num(30)
    /\ IsSignal(result.ret, "long")
    /\ result.ret.confidence = Rat(7, 10)
    /\ Gt(result.ret.meta.ema_fast, result.ret.meta.ema_slow)

Divergence == out.fn = "detect_divergence"
Trailing == {i \in 1..Len(prices) : i > Len(prices) - out.lookback}

(* i holds the lowest (highest) price among the positions I, the earliest  *)
(* one where several do.                                                   *)
LowestIn(i, I) ==
    i \in I /\ \A j \in I : Lt(prices[i], prices[j]) \/ (prices[i] = prices[j] /\ i <= j)
HighestIn(i, I) ==
    i \in I /\ \A j \in I : Gt(prices[i], prices[j]) \/ (prices[i] = prices[j] /\ i <= j)

(* The two lowest (highest) samples a, b of the trailing window show the   *)
(* pattern when a is read as the earlier and b as the later one.           *)
HigherLow(a, b) == Gt(prices[b], prices[a]) /\ Lt(indicator[b], indicator[a])
LowerHigh(a, b) == Lt(prices[b], prices[a]) /\ Gt(indicator[b], indicator[a])

(* C6 as stated: Bullish exactly when, of the two lowest price samples of  *)
(* the trailing window, the later-occurring one has the higher price and   *)
(* the lower indicator value; otherwise Bearish when, of the two highest,  *)
(* the later-occurring one has the lower price and the higher indicator    *)
(* value; None when neither holds.                                         *)
C6_ChronologicalDivergence ==
    (Divergence /\ Len(prices) >= 2 * out.lookback) =>
        LET bullish == \E a, b \in Trailing :
                          /\ \/ LowestIn(a, Trailing) /\ LowestIn(b, Trailing \ {a})
                             \/ LowestIn(b, Trailing) /\ LowestIn(a, Trailing \ {b})
                          /\ a < b
                          /\ HigherLow(a, b)
            bearish == \E a, b \in Trailing :
                          /\ \/ HighestIn(a, Trailing) /\ HighestIn(b, Trailing \ {a})
                             \/ HighestIn(b, Trailing) /\ HighestIn(a, Trailing \ {b})
                          /\ a < b
                          /\ LowerHigh(a, b)
        IN  out.ret = IF bullish THEN "bullish" ELSE IF bearish THEN "bearish" ELSE "None"

(* C6, amended: the two samples are ordered by price, not by time.         *)
(* Bullish exactly when the series has at least 2 x lookback samples and   *)
(* the second-lowest price of the trailing window is above the lowest      *)
(* while the indicator at the second-lowest is below the indicator at the  *)
(* lowest; otherwise Bearish exactly when the second-highest price is      *)
(* below the highest while its indicator is above; None in every other     *)
(* case.                                                                   *)
C6_PriceOrderedDivergence ==
    Divergence =>
        LET enough == Len(prices) >= 2 * out.lookback
            bullish == \E a, b \in Trailing :
                          /\ LowestIn(a, Trailing)
                          /\ LowestIn(b, Trailing \ {a})
                          /\ HigherLow(a, b)
            bearish == \E a, b \in Trailing :
                          /\ HighestIn(a, Trailing)
                          /\ HighestIn(b, Trailing \ {a})
                          /\ LowerHigh(a, b)
        IN  out.ret = IF enough /\ bullish THEN "bullish"
                      ELSE IF enough /\ bearish THEN "bearish"
                      ELSE "None"

(* Bullish although the lowest price is the later of the two samples. *)
C6_Witness ==
    /\ Divergence
    /\ out.ret = "bullish"
    /\ out.lookback = 3
    /\ \E a, b \in Trailing :
          /\ LowestIn(a, Trailing)
          /\ LowestIn(b, Trailing \ {a})
          /\ b < a

(* C7: calculate_rsi is exactly 100 at every defined position whose mean   *)
(* loss over the period is zero, a flat series included.                   *)
C7_ZeroMeanLossGivesHundred ==
    (out.fn = "calculate_rsi") =>
        \A i \in out.period..Len(prices) :
            IsZero(RollingMean(LossSeries(prices), out.period, i)) => out.ret[i] = Num(100)

(* C8: calculate_take_profit(entry, stop, ratio) is entry + |entry - stop| *)
(* x ratio when entry > stop and entry - |entry - stop| x ratio otherwise, *)
(* the same in all four strategies; with entry = stop it returns entry.    *)
C8_TakeProfitFormula ==
    (result.op = "calculate_take_profit") =>
        LET entry == result.args[1]
            stop == result.args[2]
            ratio == result.args[3]
            gap == Sub(entry, stop)
            distance == IF Lt(gap, Num(0)) THEN Neg(gap) ELSE gap
            expected == IF Gt(entry, stop) THEN Add(entry, Mul(distance, ratio))
                        ELSE Sub(entry, Mul(distance, ratio))
        IN  /\ result.ret = expected
            /\ entry = stop => result.ret = entry
            /\ \A n \in {"Volume Breakout", "RSI Divergence", "Bollinger Squeeze",
                         "EMA Crossover"} :
                  calculate_take_profit([name |-> n], entry, stop, ratio) = result.ret

C8_Witness ==
    /\ result.op = "calculate_take_profit"
    /\ strategy.name = "EMA Crossover"
    /\ result.args = <<Num(100), Rat(1995, 10), Rat(5, 2)>>
    /\ result.ret = Rat(-2975, 20)

MinimumCandles ==
    CASE strategy.name = "Volume Breakout" -> 20
      [] strategy.name = "RSI Divergence" -> strategy.rsi_period + 20
      [] strategy.name = "Bollinger Squeeze" ->
            20 + (IF strategy.bb_period >= strategy.atr_period
                  THEN strategy.bb_period ELSE strategy.atr_period)
      [] strategy.name = "EMA Crossover" -> strategy.slow_period + 5

(* C9: generate_signal returns None, without raising, whenever the window  *)
(* has fewer candles than the strategy's minimum: 20 for Volume Breakout,  *)
(* rsi_period + 20 for RSI Divergence, max(bb_period, atr_period) + 20 for *)
(* Bollinger Squeeze, slow_period + 5 for EMA Crossover.                   *)
C9_ShortWindowReturnsNone ==
    (Generated /\ Last < MinimumCandles) => result.ret = None

C9_Witness ==
    /\ Generated
    /\ strategy.name = "EMA Crossover"
    /\ strategy.fast_period = 0
    /\ Last = MinimumCandles - 1
    /\ df[Last].close = 130
    /\ result.ret = None

(* C10: no strategy object holds a non-positive period or multiplier:      *)
(* construction rejects it.                                                *)
C10_NonPositiveParameterRejected ==
    /\ strategy.name = "Volume Breakout" => Gt(strategy.volume_multiplier, Num(0))
    /\ strategy.name = "RSI Divergence" => strategy.rsi_period > 0
    /\ strategy.name = "Bollinger Squeeze" =>
          strategy.bb_period > 0 /\ strategy.atr_period > 0 /\ Gt(strategy.bb_std, Num(0))
    /\ strategy.name = "EMA Crossover" =>
          /\ strategy.fast_period > 0
          /\ strategy.slow_period > 0
          /\ Gt(strategy.volume_multiplier, Num(0))

VolumeRatios == {Num(0), Num(1), Num(2), Rat(5, 2), Num(5), Num(6), Num(7), PosInf}

(* C12: the confidence of every Volume Breakout Signal is                  *)
(* min(0.9, 0.5 + (volume_ratio - 2) x 0.1) with volume_ratio = current    *)
(* volume / 10-period mean volume; it never exceeds 0.9 and no smaller     *)
(* ratio gets a larger confidence, no larger ratio a smaller one.          *)
C12_VolumeBreakoutConfidence ==
    (Generated /\ strategy.name = "Volume Breakout" /\ result.ret.kind = "Signal") =>
        LET ratio == Div(Volume(df)[Last], RollingMean(Volume(df), 10, Last))
            linear == Add(Rat(1, 2), Div(Sub(ratio, Num(2)), Num(10)))
            confidence == result.ret.confidence
        IN  /\ result.ret.meta.volume_ratio = ratio
            /\ confidence = IF Lt(linear, Rat(9, 10)) THEN linear ELSE Rat(9, 10)
            /\ Le(confidence, Rat(9, 10))
            /\ \A r \in VolumeRatios :
                  /\ Le(r, ratio) => Le(VolumeBreakoutStrategy_confidence(r), confidence)
                  /\ Ge(r, ratio) => Ge(VolumeBreakoutStrategy_confidence(r), confidence)

(* A capped confidence: the linear term is above 0.9. *)
C12_Witness ==
    /\ Generated
    /\ strategy.name = "Volume Breakout"
    /\ result.ret.kind = "Signal"
    /\ Gt(result.ret.meta.volume_ratio, Num(6))
    /\ result.ret.confidence = Rat(9, 10)

(* C13: calculate_rsi is unavailable at every position with fewer than     *)
(* `period` preceding samples (0-based index below period, here position   *)
(* i <= period), so no value rests on the zero that stands in for the      *)
(* undefined first price change.                                           *)
C13_UnavailableBeforePeriod ==
    (out.fn = "calculate_rsi") =>
        \A i \in 1..Len(prices) : i <= out.period => IsNaN(out.ret[i])

(* C14: for every price series and every period >= 1, each available     *)
(* value of calculate_rsi lies between 0 and 100.                          *)
C14_RsiRange ==
    (out.fn = "calculate_rsi" /\ out.period >= 1) =>
        \A i \in 1..Len(prices) :
            ~IsNaN(out.ret[i]) => Ge(out.ret[i], Num(0)) /\ Le(out.ret[i], Num(100))

(* Gains and losses in one window: an RSI strictly inside the range. *)
C14_Witness ==
    /\ out.fn = "calculate_rsi"
    /\ out.period >= 2
    /\ \E i \in 1..Len(prices) : Gt(out.ret[i], Num(0)) /\ Lt(out.ret[i], Num(100))
    /\ \E i \in 1..Len(prices) : out.ret[i] = Num(100)

(* C15: %K of calculate_stochastic is unavailable, never infinite, at     *)
(* every position where the highest high equals the lowest low over        *)
(* k_period, whatever the close there.                                     *)
C15_FlatRangeUnavailable ==
    (out.fn = "calculate_stochastic") =>
        \A i \in 1..Len(prices) :
            (/\ i >= out.k_period
             /\ Eq(RollingMax(out.high, out.k_period, i), RollingMin(out.low, out.k_period, i)))
                => IsNaN(out.ret.k[i])

(* The population variance (divisor w) of the w values of s ending at i. *)
PopulationVar(s, w, i) ==
    LET m == Div(SumRange(s, i - w + 1, i), Num(w))
        sq == [j \in 1..Len(s) |-> Mul(Sub(s[j], m), Sub(s[j], m))]
    IN  Div(SumRange(sq, i - w + 1, i), Num(w))

(* C16: at every defined position calculate_bollinger_bands returns        *)
(* middle = mean of the last `period` prices and upper/lower = middle +/-  *)
(* k x their population standard deviation (divisor period), so that       *)
(* upper - middle = middle - lower.                                        *)
C16_PopulationBands ==
    (out.fn = "calculate_bollinger_bands") =>
        \A i \in out.period..Len(prices) :
            LET middle == Div(SumRange(prices, i - out.period + 1, i), Num(out.period))
                width == Mul(out.std_dev, Sqrt(PopulationVar(prices, out.period, i)))
                bands == out.ret[i]
            IN  /\ bands.middle = middle
                /\ bands.upper = Add(middle, width)
                /\ bands.lower = Sub(middle, width)
                /\ Sub(bands.upper, bands.middle) = Sub(bands.middle, bands.lower)


(* What the candles of d covering price k trade in total, each once. *)
CoveringVolume(d, k) ==
    SumRange([r \in 1..Len(d) |->
                 IF Le(Low(d)[r], k) /\ Le(k, High(d)[r]) THEN Volume(d)[r] ELSE Num(0)],
             1, Len(d))

(* C17: calculate_volume_profile splits [min low, max high] into `bins`   *)
(* equal-width buckets; every bucket holds exactly the sum of the volumes *)
(* of the candles with low <= bucket price <= high, each candle counted   *)
(* once per bucket (also when the observed range is zero and the bucket   *)
(* prices coincide), and the point of control is a bucket of maximal      *)
(* accumulated volume.                                                    *)
C17_BucketVolumes ==
    (out.fn = "calculate_volume_profile") =>
        LET low_min == MinRange(Low(df), 1, Len(df))
            high_max == MaxRange(High(df), 1, Len(df))
            width == Div(Sub(high_max, low_min), Num(out.bins))
            price(i) == Add(low_min, Mul(Num(i), width))
            profile == out.ret.profile
        IN  /\ \A i \in 0..(out.bins - 1) :
                  Gt(CoveringVolume(df, price(i)), Num(0)) =>
                      /\ price(i) \in DOMAIN profile
                      /\ profile[price(i)] = CoveringVolume(df, price(i))
            /\ out.ret.poc \in DOMAIN profile
            /\ \A k \in DOMAIN profile : Ge(profile[out.ret.poc], profile[k])

(* C18: DataLoader.get_ohlcv always terminates: whatever the exchange     *)
(* answers (candles, an empty batch, an exception), the pagination loop   *)
(* exits after at most 101 successful batches and the function returns a  *)
(* DataFrame.                                                             *)
C18_GetOhlcvTerminates ==
    /\ [](loader.batch <= MaxBatches + 1)
    /\ (loader.pc # "start") ~> (loader.pc = "returned")

(* C19: when the fetch of the first batch (none received yet) raises, it  *)
(* is retried exactly once; a failure of that retry, and a failure on any *)
(* later batch, ends the loop without a retry and returns the candles     *)
(* accumulated so far.                                                    *)
C19_FirstBatchRetriedOnce ==
    [][loader.pc = "except" =>
         IF loader.batch = 0 /\ loader.failed = 0
         THEN loader'.pc = "fetch"
         ELSE loader'.pc = "returned" /\ loader'.ret = loader.all_candles]_vars

(* C20: VolumeBreakoutStrategy.generate_signal never returns a Signal for *)
(* a window of exactly 20 candles, whatever its prices and volumes: the   *)
(* prior 20-period high and low are unavailable there, so a Signal needs  *)
(* at least 21 candles although the history guard admits 20.              *)
C20_NoSignalAtTwentyCandles ==
    (Generated /\ strategy.name = "Volume Breakout") =>
        /\ Last = 20 => result.ret = None
        /\ result.ret.kind = "Signal" => Last >= 21

(* A window of exactly 20 candles that passes the history guard and the   *)
(* volume filter and closes above every earlier high, yet yields None.    *)
C20_Witness ==
    /\ Generated
    /\ strategy.name = "Volume Breakout"
    /\ Last = 20
    /\ Ge(Volume(df)[Last], Mul(RollingMean(Volume(df), 10, Last), strategy.volume_multiplier))
    /\ \A i \in 1..(Last - 1) : Gt(Close(df)[Last], High(df)[i])
    /\ result.ret = None

=========================================================================
